---- MODULE Spec2Model ----
\* A model of analyze_slices.py: the slice classifiers (tokenize, has_negation,
\* length_bucket, jaccard_overlap, overlap_bucket) as operators over texts that
\* are sequences of one-character strings, and main() as a state machine
\* (read the prediction file, aggregate row by row, print the report).
EXTENDS Integers, Sequences, FiniteSets, TLC

VARIABLES
    args,        \* the parsed command line (main, lines 54-63)
    rows,        \* the parsed JSON rows of the prediction file
    pc,          \* where main() is: "read", "loop", "report", "done", "crashed"
    idx,         \* number of rows the aggregation loop has consumed
    total, correct,
    slice_tot, slice_cor, slice_errs,
    conf,        \* Counter (gold, pred) -> count, in insertion order
    out,         \* what has been printed, one tuple per printed line
    ta, tb,      \* classifier inputs (a premise-like and a hypothesis-like text)
    cls          \* results of applying the classifiers to ta, tb

vars == <<args, rows, pc, idx, total, correct, slice_tot, slice_cor, slice_errs,
          conf, out, ta, tb, cls>>

mainVars == <<args, rows, pc, idx, total, correct, slice_tot, slice_cor,
              slice_errs, conf, out>>

textVars == <<ta, tb, cls>>

-----------------------------------------------------------------------------
\* Characters and character classes

LowerSeq == <<"a","b","c","d","e","f","g","h","i","j","k","l","m",
              "n","o","p","q","r","s","t","u","v","w","x","y","z">>

UpperSeq == <<"A","B","C","D","E","F","G","H","I","J","K","L","M",
              "N","O","P","Q","R","S","T","U","V","W","X","Y","Z">>

Range(s) == {s[i] : i \in 1..Len(s)}

LowerCase == Range(LowerSeq)

UpperCase == Range(UpperSeq)

Digits == {"0","1","2","3","4","5","6","7","8","9"}

\* str.lower() on one (ASCII) character
LowerOf == [c \in UpperCase |->
               LowerSeq[CHOOSE i \in 1..Len(UpperSeq) : UpperSeq[i] = c]]

ToLower(c) == IF c \in UpperCase THEN LowerOf[c] ELSE c

\* the class [A-Za-z0-9'] of WORD_RE
IsWordChar(c) == c \in LowerCase \cup UpperCase \cup Digits \cup {"'"}

\* the class \w that \b of NEG_RE tests (ASCII part): letters, digits, underscore
IsReWordChar(c) == c \in LowerCase \cup UpperCase \cup Digits \cup {"_"}

-----------------------------------------------------------------------------
\* tokenize: WORD_RE.findall(text.lower()): the maximal runs of word characters,
\* lower-cased, left to right

RECURSIVE TokScan(_, _, _, _)
TokScan(text, i, cur, acc) ==
    IF i > Len(text)
    THEN IF cur = <<>> THEN acc ELSE Append(acc, cur)
    ELSE IF IsWordChar(ToLower(text[i]))
         THEN TokScan(text, i + 1, Append(cur, ToLower(text[i])), acc)
         ELSE TokScan(text, i + 1, <<>>,
                      IF cur = <<>> THEN acc ELSE Append(acc, cur))

tokenize(text) == TokScan(text, 1, <<>>, <<>>)

\* the alternatives of NEG_RE, in the order of the pattern
NEG_ALTS == <<
    <<"n","o">>,
    <<"n","o","t">>,
    <<"n","e","v","e","r">>,
    <<"n","o","n","e">>,
    <<"n","o","t","h","i","n","g">>,
    <<"n","o","b","o","d","y">>,
    <<"n","o","o","n","e">>,
    <<"c","a","n","'","t">>,
    <<"c","a","n","n","o","t">>,
    <<"w","o","n","'","t">>,
    <<"d","o","n","'","t">>,
    <<"d","o","e","s","n","'","t">>,
    <<"d","i","d","n","'","t">>,
    <<"i","s","n","'","t">>,
    <<"a","r","e","n","'","t">>,
    <<"w","a","s","n","'","t">>,
    <<"w","e","r","e","n","'","t">>,
    <<"w","i","t","h","o","u","t">> >>

\* \b at offset p (between text[p] and text[p+1]); outside the text is non-word
WordBoundary_OnlySpaces(text, p) ==
    LET w(q) == q >= 1 /\ q <= Len(text) /\ text[q] # " "
    IN  w(p) # w(p + 1)

WordBoundary(text, p) ==
    LET w(q) == q >= 1 /\ q <= Len(text) /\ IsReWordChar(text[q])
    IN  w(p) # w(p + 1)

\* alternative alt of NEG_RE matches text at offset p, ignoring case
AltMatchesAt(text, p, alt) ==
    /\ p + Len(alt) <= Len(text)
    /\ WordBoundary(text, p)
    /\ \A q \in 1..Len(alt) : ToLower(text[p + q]) = alt[q]
    /\ WordBoundary(text, p + Len(alt))

\* has_negation: NEG_RE.search finds a match at some offset, for some alternative
has_negation(text) ==
    \E p \in 0..Len(text) : \E k \in 1..Len(NEG_ALTS) :
        AltMatchesAt(text, p, NEG_ALTS[k])

length_bucket_Off(text) ==
    LET n == Len(tokenize(text))
    IN  IF n < 5 THEN "short(<=5)"
        ELSE IF n <= 15 THEN "medium(6-15)"
        ELSE "long(>15)"

length_bucket(text) ==
    LET n == Len(tokenize(text))
    IN  IF n <= 5 THEN "short(<=5)"
        ELSE IF n <= 15 THEN "medium(6-15)"
        ELSE "long(>15)"

\* jaccard_overlap: the float len(sa & sb) / len(sa | sb) as the exact fraction
\* [num, den]; 0.0 is [0, 1]. Division of small integers is correctly rounded, so
\* comparing the float against 0.5 and 0.2 is comparing the fraction against 1/2
\* and 1/5, and two quotients are equal floats exactly when the fractions are equal.
jaccard_overlap_OverFirst(a, b) ==
    LET sa == Range(tokenize(a))
        sb == Range(tokenize(b))
    IN  IF sa = {} /\ sb = {}
        THEN [num |-> 0, den |-> 1]
        ELSE [num |-> Cardinality(sa \cap sb),
              den |-> IF sa = {} THEN Cardinality(sb) ELSE Cardinality(sa)]

jaccard_overlap(a, b) ==
    LET sa == Range(tokenize(a))
        sb == Range(tokenize(b))
    IN  IF sa = {} /\ sb = {}
        THEN [num |-> 0, den |-> 1]
        ELSE [num |-> Cardinality(sa \cap sb), den |-> Cardinality(sa \cup sb)]

\* j >= x/y for a fraction j
FracGeq(j, x, y) == j.num * y >= x * j.den

overlap_bucket(premise, hypothesis) ==
    LET j == jaccard_overlap(premise, hypothesis)
    IN  IF FracGeq(j, 1, 2) THEN "high(>=0.5)"
        ELSE IF FracGeq(j, 1, 5) THEN "mid(0.2-0.5)"
        ELSE "low(<0.2)"

-----------------------------------------------------------------------------
\* Rows of the prediction file. A label value is <<>> when the key is absent or
\* null (r.get(..., None) is None) and <<x>> when it is the integer x; gold, pred
\* and the keys of conf hold label values in this form.

None == <<>>

Some(x) == <<x>>

Row(prem, hyp, gold, pred) ==
    [premise |-> prem, hypothesis |-> hyp, label |-> gold, predicted_label |-> pred]

\* "a b c ...": the words i..j of the alphabet, separated by single spaces
RECURSIVE SpanText(_, _)
SpanText(i, j) ==
    IF i > j THEN <<>>
    ELSE IF i = j THEN <<LowerSeq[i]>>
    ELSE <<LowerSeq[i], " ">> \o SpanText(i + 1, j)

\* "A man is not running" / "A man is running"
PremA == <<"A"," ","m","a","n"," ","i","s"," ","n","o","t"," ",
           "r","u","n","n","i","n","g">>

HypA == <<"A"," ","m","a","n"," ","i","s"," ","r","u","n","n","i","n","g">>

\* "A cat sat" / "No dog is in the park"
PremB == <<"A"," ","c","a","t"," ","s","a","t">>

HypB == <<"N","o"," ","d","o","g"," ","i","s"," ","i","n"," ",
          "t","h","e"," ","p","a","r","k">>

\* six words / sixteen words, the first six shared
PremC == SpanText(1, 6)

HypC == SpanText(1, 16)

RowC2 == Row(PremA, HypA, Some(2), Some(0))

RowPool == {
    RowC2,
    Row(PremA, HypA, Some(0), Some(0)),
    Row(PremB, HypB, Some(0), Some(1)),
    Row(PremB, HypB, None,    Some(1)),
    Row(PremC, HypC, Some(2), None),
    Row(PremC, HypC, Some(2), Some(0)),
    Row(PremC, HypC, Some(1), Some(2)) }

\* the non-empty lines a prediction file may hold, and the blank line
BlankLine == <<>>

Lines == {BlankLine} \cup {<<r>> : r \in RowPool}

\* the longest prediction file read, in rows
MaxRows == 3

CapValues == {-1, 0, 1, 2}

TopValues == {-1, 0, 1, 2}

ArgSpace == [show_examples : BOOLEAN, examples_per_slice : CapValues,
             show_confusions : BOOLEAN, top_confusions : TopValues]

\* parse_label_map applied to the default of --label_map
id2name == [x \in {0, 1, 2} |->
               IF x = 0 THEN "entailment"
               ELSE IF x = 1 THEN "neutral" ELSE "contradiction"]

\* fmt_label on a label value as read from the row: "x (name)" or str(x)
fmt_label(x) ==
    IF x # None /\ x[1] \in DOMAIN id2name THEN <<x[1], id2name[x[1]]>> ELSE x

-----------------------------------------------------------------------------
\* Slice keys, per dimension in the lexicographic order of the key strings

NegKeys == <<"NEG::negation", "NEG::no_negation">>

LenKeys == <<"LEN::long(>15)", "LEN::medium(6-15)", "LEN::short(<=5)">>

OvlKeys == <<"OVL::high(>=0.5)", "OVL::low(<0.2)", "OVL::mid(0.2-0.5)">>

SliceKeys == Range(NegKeys) \cup Range(LenKeys) \cup Range(OvlKeys)

NegKey(hyp) == IF has_negation(hyp) THEN "NEG::negation" ELSE "NEG::no_negation"

LenKey(hyp) ==
    LET lb == length_bucket(hyp)
    IN  IF lb = "short(<=5)" THEN "LEN::short(<=5)"
        ELSE IF lb = "medium(6-15)" THEN "LEN::medium(6-15)"
        ELSE "LEN::long(>15)"

OvlKey(prem, hyp) ==
    LET ob == overlap_bucket(prem, hyp)
    IN  IF ob = "high(>=0.5)" THEN "OVL::high(>=0.5)"
        ELSE IF ob = "mid(0.2-0.5)" THEN "OVL::mid(0.2-0.5)"
        ELSE "OVL::low(<0.2)"

\* the list `slices` of one row, as the set of its three (distinct) keys
SlicesOf_NoOverlap(r) == {NegKey(r.hypothesis), LenKey(r.hypothesis)}

SlicesOf_NegOnPremise(r) ==
    {NegKey(r.premise), LenKey(r.hypothesis), OvlKey(r.premise, r.hypothesis)}

SlicesOf(r) ==
    {NegKey(r.hypothesis), LenKey(r.hypothesis), OvlKey(r.premise, r.hypothesis)}

\* SlicesOf over the rows a file may hold, evaluated once
SliceTable == [r \in RowPool |-> SlicesOf(r)]

\* `gold is None or pred is None` is false
Scored_EitherPresent(r) == r.label # None \/ r.predicted_label # None

Scored(r) == r.label # None /\ r.predicted_label # None

\* conf[key] += 1 on an insertion-ordered Counter held as a sequence of entries
CounterAdd_ErrorsOnly(c, key) ==
    IF key[1] = key[2] THEN c
    ELSE IF \E i \in 1..Len(c) : c[i].key = key
    THEN [i \in 1..Len(c) |->
             IF c[i].key = key THEN [c[i] EXCEPT !.count = @ + 1] ELSE c[i]]
    ELSE Append(c, [key |-> key, count |-> 1])

CounterAdd(c, key) ==
    IF \E i \in 1..Len(c) : c[i].key = key
    THEN [i \in 1..Len(c) |->
             IF c[i].key = key THEN [c[i] EXCEPT !.count = @ + 1] ELSE c[i]]
    ELSE Append(c, [key |-> key, count |-> 1])

\* the condition under which a row is appended to slice_errs[s]
StoresError_Leq(a, is_correct, errs) ==
    (~is_correct) /\ a.show_examples /\ Len(errs) <= a.examples_per_slice

StoresError(a, is_correct, errs) ==
    (~is_correct) /\ a.show_examples /\ Len(errs) < a.examples_per_slice

-----------------------------------------------------------------------------
\* main()

Init ==
    /\ args \in ArgSpace
    /\ rows = <<>>
    /\ pc = "read"
    /\ idx = 0
    /\ total = 0
    /\ correct = 0
    /\ slice_tot = [k \in SliceKeys |-> 0]
    /\ slice_cor = [k \in SliceKeys |-> 0]
    /\ slice_errs = [k \in SliceKeys |-> <<>>]
    /\ conf = <<>>
    /\ out = <<>>
    /\ ta = <<>>
    /\ tb = <<>>
    /\ cls = <<>>

\* one line of the file: a blank line is dropped, any other is parsed and kept
ReadLine ==
    /\ pc = "read"
    /\ Len(rows) < MaxRows
    /\ \E line \in Lines :
          rows' = IF line = BlankLine THEN rows ELSE Append(rows, line[1])
    /\ UNCHANGED <<args, pc, idx, total, correct, slice_tot, slice_cor,
                   slice_errs, conf, out>>
    /\ UNCHANGED textVars

EndOfFile ==
    /\ pc = "read"
    /\ pc' = "loop"
    /\ UNCHANGED <<args, rows, idx, total, correct, slice_tot, slice_cor,
                   slice_errs, conf, out>>
    /\ UNCHANGED textVars

\* one iteration of `for r in rows`. slice_errs holds the rows by reference: a
\* stored entry is the position of the row in `rows`.
LoopStep ==
    /\ pc = "loop"
    /\ idx < Len(rows)
    /\ idx' = idx + 1
    /\ LET r == rows[idx + 1]
       IN  IF ~Scored(r)
           THEN UNCHANGED <<total, correct, slice_tot, slice_cor, slice_errs, conf>>
           ELSE LET gold == r.label
                    pred == r.predicted_label
                    is_correct == (gold = pred)
                    slices == SliceTable[r]
                IN  /\ total' = total + 1
                    /\ correct' = correct + (IF is_correct THEN 1 ELSE 0)
                    /\ conf' = CounterAdd(conf, <<gold, pred>>)
                    /\ slice_tot' = [k \in SliceKeys |->
                          IF k \in slices THEN slice_tot[k] + 1 ELSE slice_tot[k]]
                    /\ slice_cor' = [k \in SliceKeys |->
                          IF k \in slices /\ is_correct
                          THEN slice_cor[k] + 1 ELSE slice_cor[k]]
                    /\ slice_errs' = [k \in SliceKeys |->
                          IF k \in slices /\ StoresError(args, is_correct, slice_errs[k])
                          THEN Append(slice_errs[k], idx + 1) ELSE slice_errs[k]]
    /\ UNCHANGED <<args, rows, pc, out>>
    /\ UNCHANGED textVars

LoopEnd ==
    /\ pc = "loop"
    /\ idx = Len(rows)
    /\ pc' = "report"
    /\ UNCHANGED <<args, rows, idx, total, correct, slice_tot, slice_cor,
                   slice_errs, conf, out>>
    /\ UNCHANGED textVars

-----------------------------------------------------------------------------
\* The report (lines 114-153)

\* list.sort / sorted: the stable sort of seq by the strict order of its sort
\* keys, given as less[i][j] = (the key of seq[i] is below the key of seq[j])
StableSort(seq, less) ==
    LET n == Len(seq)
        before(j, i) == less[j][i] \/ (~less[i][j] /\ j < i)
        rank(i) == Cardinality({j \in 1..n : before(j, i)}) + 1
    IN  [p \in 1..n |-> seq[CHOOSE i \in 1..n : rank(i) = p]]

\* seq[:n], with Python's reading of a negative n
PySlice(seq, n) ==
    LET m == IF n >= 0 THEN n ELSE Len(seq) + n
        k == IF m < 0 THEN 0 ELSE IF m > Len(seq) THEN Len(seq) ELSE m
    IN  SubSeq(seq, 1, k)

\* a float x / y (y > 0) as a fraction, and the order of two such floats
Frac(x, y) == [num |-> x, den |-> y]

FracLess(a, b) == a.num * b.den < b.num * a.den

\* print_group: `items` holds (k, n, acc); keys is the dimension's key list
GroupItems(keys) ==
    LET present == SelectSeq(keys, LAMBDA k : slice_tot[k] > 0)
        items == [i \in 1..Len(present) |->
                     [k |-> present[i], n |-> slice_tot[present[i]],
                      acc |-> Frac(slice_cor[present[i]], slice_tot[present[i]])]]
    IN  StableSort(items, [i \in 1..Len(items) |-> [j \in 1..Len(items) |->
                              items[i].n > items[j].n]])

ExampleLines(items) ==
    LET by_acc == StableSort(items, [i \in 1..Len(items) |-> [j \in 1..Len(items) |->
                                 FracLess(items[i].acc, items[j].acc)]])
        first == PySlice(by_acc, 1)
    IN  IF first = <<>> \/ ~args.show_examples THEN <<>>
        ELSE IF Len(slice_errs[first[1].k]) = 0 THEN <<>>
        ELSE <<<<"errors", first[1].k, first[1].acc>>>> \o
             [i \in 1..Len(slice_errs[first[1].k]) |->
                 LET ex == rows[slice_errs[first[1].k][i]]
                 IN  <<"example", ex.premise, ex.hypothesis,
                       fmt_label(ex.label), fmt_label(ex.predicted_label)>>]

print_group(keys, title) ==
    LET items == GroupItems(keys)
    IN  <<<<"title", title>>>> \o
        [i \in 1..Len(items) |->
            <<"slice", items[i].k, items[i].n, Frac(100 * items[i].n, total),
              items[i].acc>>] \o
        ExampleLines(items)

\* the confusion listing: the (gold, pred) entries with gold != pred, most
\* frequent first, cut to top_confusions
BadPairs_Ascending ==
    LET bad == SelectSeq(conf, LAMBDA e : e.key[1] # e.key[2])
    IN  StableSort(bad, [i \in 1..Len(bad) |-> [j \in 1..Len(bad) |->
                            bad[i].count < bad[j].count]])

BadPairs ==
    LET bad == SelectSeq(conf, LAMBDA e : e.key[1] # e.key[2])
    IN  StableSort(bad, [i \in 1..Len(bad) |-> [j \in 1..Len(bad) |->
                            bad[i].count > bad[j].count]])

ConfusionLines ==
    IF ~args.show_confusions THEN <<>>
    ELSE LET shown == PySlice(BadPairs, args.top_confusions)
         IN  <<<<"title", "Top confusions (gold -> pred), excluding correct">>>> \o
             [i \in 1..Len(shown) |->
                 <<"confusion", fmt_label(shown[i].key[1]),
                   fmt_label(shown[i].key[2]), shown[i].count>>]

\* With total = 0 line 116 divides by zero: the run ends in a ZeroDivisionError
\* with only the first two lines printed.
Report ==
    /\ pc = "report"
    /\ IF total = 0
       THEN /\ out' = <<<<"file">>, <<"scored", total>>>>
            /\ pc' = "crashed"
       ELSE /\ out' = <<<<"file">>, <<"scored", total>>,
                        <<"accuracy", Frac(correct, total)>>>> \o
                      print_group(NegKeys, "Negation slices (hypothesis)") \o
                      print_group(LenKeys, "Hypothesis length buckets") \o
                      print_group(OvlKeys, "Lexical overlap buckets (Jaccard)") \o
                      ConfusionLines
            /\ pc' = "done"
    /\ UNCHANGED <<args, rows, idx, total, correct, slice_tot, slice_cor,
                   slice_errs, conf>>
    /\ UNCHANGED textVars

Next ==
    \/ ReadLine
    \/ EndOfFile
    \/ LoopStep
    \/ LoopEnd
    \/ Report

Spec == Init /\ [][Next]_vars

-----------------------------------------------------------------------------
\* The classifiers on their own: every text of a bounded family is classified
\* the way lines 98-100 classify a row's premise (ta) and hypothesis (tb).

\* characters of the texts has_negation is run on
TextAlphabet == {"n", "o", "t", "w", "N", "'", "_", " "}

\* the longest such text
MaxTextLen == 4

NegTexts == UNION {[1..k -> TextAlphabet] : k \in 0..MaxTextLen}

\* the number of distinct words the word-list texts draw on
VocabSize == 17

SpanTexts == {SpanText(i, j) : i \in 1..VocabSize, j \in 0..VocabSize}

ShortTexts == { <<>>, <<" ">>, <<"'">>, <<"a">>, <<"A">>, <<"a"," ","A">>,
                <<"a","'","b">>, <<"a"," ","b">>, <<"b","_","a">> }

PairTexts == SpanTexts \cup ShortTexts

PremTexts == {SpanText(1, j) : j \in 0..VocabSize} \cup ShortTexts

\* (premise, hypothesis) pairs
TextInputs == (PremTexts \X PairTexts) \cup ({<<>>} \X NegTexts)

TextInit ==
    /\ args = [show_examples |-> FALSE, examples_per_slice |-> 3,
               show_confusions |-> FALSE, top_confusions |-> 10]
    /\ rows = <<>>
    /\ pc = "classify"
    /\ idx = 0
    /\ total = 0
    /\ correct = 0
    /\ slice_tot = [k \in SliceKeys |-> 0]
    /\ slice_cor = [k \in SliceKeys |-> 0]
    /\ slice_errs = [k \in SliceKeys |-> <<>>]
    /\ conf = <<>>
    /\ out = <<>>
    /\ \E in \in TextInputs : ta = in[1] /\ tb = in[2]
    /\ cls = <<>>

ApplyClassifiers ==
    /\ pc = "classify"
    /\ cls = <<>>
    /\ cls' = << [ tok_a |-> tokenize(ta),
                   tok_b |-> tokenize(tb),
                   neg   |-> has_negation(tb),
                   lb    |-> length_bucket(tb),
                   j_ab  |-> jaccard_overlap(ta, tb),
                   j_ba  |-> jaccard_overlap(tb, ta),
                   ob    |-> overlap_bucket(ta, tb) ] >>
    /\ UNCHANGED <<ta, tb>>
    /\ UNCHANGED mainVars

TextNext == ApplyClassifiers

TextSpec == TextInit /\ [][TextNext]_vars

-----------------------------------------------------------------------------
\* Properties of main()

Finished == pc \in {"done", "crashed"}

CountOf(c, key) ==
    IF \E i \in 1..Len(c) : c[i].key = key
    THEN c[CHOOSE i \in 1..Len(c) : c[i].key = key].count
    ELSE 0

RECURSIVE SumCounts(_)
SumCounts(c) == IF c = <<>> THEN 0 ELSE c[1].count + SumCounts(Tail(c))

MissingLabel(r) == r.label = None \/ r.predicted_label = None

\* C1: a run that scores no example ends normally, having printed a message that
\* says there are no examples; it never ends in the division by zero.
C1_NoExamplesReported ==
    (Finished /\ total = 0) =>
        /\ pc = "done"
        /\ \E i \in 1..Len(out) : out[i][1] = "no examples"

\* C2 as stated: the single row ("A man is not running", "A man is running", 2, 0)
\* is counted under NEG::negation and OVL::high(>=0.5) and as confusion (2, 0),
\* the contradiction -> entailment pair.
C2_CountedAsNegation ==
    (rows = <<RowC2>> /\ pc = "report") =>
        /\ slice_tot["NEG::negation"] = 1
        /\ slice_tot["OVL::high(>=0.5)"] = 1
        /\ CountOf(conf, <<Some(2), Some(0)>>) = 1
        /\ fmt_label(Some(2)) = <<2, "contradiction">>
        /\ fmt_label(Some(0)) = <<0, "entailment">>

\* C2, amended: has_negation is applied to the hypothesis, which holds no
\* negation token, so the row is counted under NEG::no_negation (and not under
\* NEG::negation), under OVL::high(>=0.5), and as confusion (2, 0), the
\* contradiction -> entailment pair.
C2_CountedByHypothesis ==
    (rows = <<RowC2>> /\ pc = "report") =>
        /\ slice_tot["NEG::no_negation"] = 1
        /\ slice_tot["NEG::negation"] = 0
        /\ slice_tot["OVL::high(>=0.5)"] = 1
        /\ CountOf(conf, <<Some(2), Some(0)>>) = 1
        /\ fmt_label(Some(2)) = <<2, "contradiction">>
        /\ fmt_label(Some(0)) = <<0, "entailment">>

C2_Witness == rows = <<RowC2>> /\ pc = "report" /\ total = 1

DimSum(f, keys) ==
    IF Len(keys) = 2 THEN f[keys[1]] + f[keys[2]]
    ELSE f[keys[1]] + f[keys[2]] + f[keys[3]]

\* C3: after any prefix of the rows, in each of the three dimensions the slice
\* totals add up to total and the slice corrects add up to correct, and no slice
\* has more corrects than rows.
C3_DimensionSums ==
    /\ \A keys \in {NegKeys, LenKeys, OvlKeys} :
          /\ DimSum(slice_tot, keys) = total
          /\ DimSum(slice_cor, keys) = correct
    /\ \A k \in SliceKeys : slice_cor[k] <= slice_tot[k]

C3_Witness ==
    /\ pc = "loop" /\ idx < Len(rows)
    /\ total = 2 /\ correct = 1
    /\ slice_tot["LEN::short(<=5)"] = 1 /\ slice_tot["LEN::medium(6-15)"] = 1
    /\ slice_tot["NEG::negation"] = 1 /\ slice_tot["OVL::low(<0.2)"] = 1

\* C4: the loop step on a row whose gold or predicted label is missing changes
\* no counter and raises nothing: the loop goes on to the next row.
C4_SkipChangesNothing ==
    [][(pc = "loop" /\ idx < Len(rows) /\ MissingLabel(rows[idx + 1])) =>
          /\ UNCHANGED <<total, correct, slice_tot, slice_cor, slice_errs, conf>>
          /\ pc' = "loop" /\ idx' = idx + 1]_vars

C4_Witness ==
    /\ pc = "loop" /\ idx = 3 /\ total = 1
    /\ ~MissingLabel(rows[1])
    /\ rows[2].label = None
    /\ rows[3].predicted_label = None

\* C5: a scored row adds one to the confusion count of its own (gold, predicted)
\* pair and changes no other count, whether or not it is correct; so the counts
\* add up to total and those of the pairs with gold = predicted to correct.
C5_ConfusionSums ==
    /\ SumCounts(conf) = total
    /\ SumCounts(SelectSeq(conf, LAMBDA e : e.key[1] = e.key[2])) = correct
    /\ \A i, j \in 1..Len(conf) : conf[i].key = conf[j].key => i = j

C5_ConfusionStep ==
    [][(pc = "loop" /\ idx < Len(rows) /\ ~MissingLabel(rows[idx + 1])) =>
          LET r == rows[idx + 1]
              pair == <<r.label, r.predicted_label>>
          IN  /\ CountOf(conf', pair) = CountOf(conf, pair) + 1
              /\ \A i \in 1..Len(conf) :
                    conf[i].key # pair => CountOf(conf', conf[i].key) = conf[i].count
              /\ \A i \in 1..Len(conf') :
                    conf'[i].key = pair \/ CountOf(conf, conf'[i].key) > 0]_vars

C5_Confusion == []C5_ConfusionSums /\ C5_ConfusionStep

C5_Witness ==
    /\ total = 3 /\ correct = 1
    /\ CountOf(conf, <<Some(2), Some(0)>>) = 2
    /\ CountOf(conf, <<Some(0), Some(0)>>) = 1


Max(a, b) == IF a >= b THEN a ELSE b

Min(a, b) == IF a <= b THEN a ELSE b

\* the rows stored in slice_errs[s] were consumed by the loop, scored incorrect
\* and classified into s, and are stored in input order
StoredAreErrorsOf(s) ==
    LET e == slice_errs[s]
    IN  /\ \A i \in 1..Len(e) :
              /\ e[i] \in 1..idx
              /\ ~MissingLabel(rows[e[i]])
              /\ rows[e[i]].label # rows[e[i]].predicted_label
              /\ s \in SliceTable[rows[e[i]]]
        /\ \A i, j \in 1..Len(e) : i < j => e[i] < e[j]

\* C6 as stated: after the loop every stored list holds only incorrect rows of
\* its slice, in input order, never more than examples_per_slice of them whatever
\* the cap is, and is empty when show_examples is off.
C6_AtMostCap ==
    pc = "report" =>
        \A s \in SliceKeys :
            /\ StoredAreErrorsOf(s)
            /\ Len(slice_errs[s]) <= args.examples_per_slice
            /\ (~args.show_examples => slice_errs[s] = <<>>)

\* C6, amended: after any prefix of the rows every stored list holds only
\* incorrect rows of its slice, in input order, never more than
\* max(0, examples_per_slice) of them (none for a cap of 0 or below), and is
\* empty when show_examples is off.
C6_AtMostCapOrNone ==
    \A s \in SliceKeys :
        /\ StoredAreErrorsOf(s)
        /\ Len(slice_errs[s]) <= Max(0, args.examples_per_slice)
        /\ (~args.show_examples => slice_errs[s] = <<>>)

C6_Witness ==
    /\ pc = "report" /\ args.show_examples /\ args.examples_per_slice = 1
    /\ slice_errs["NEG::no_negation"] = <<1>>
    /\ slice_errs["LEN::long(>15)"] = <<3>>
    /\ slice_tot["NEG::no_negation"] - slice_cor["NEG::no_negation"] = 2

\* the (gold, pred, count) triples of the printed confusion lines, in print order
PrintedConfusions ==
    LET ls == SelectSeq(out, LAMBDA l : l[1] = "confusion")
    IN  [i \in 1..Len(ls) |-> [key |-> <<Some(ls[i][2][1]), Some(ls[i][3][1])>>,
                               count |-> ls[i][4]]]

IncorrectPairs == {i \in 1..Len(conf) : conf[i].key[1] # conf[i].key[2]}

\* the listing shows incorrect pairs of conf with their counts, each once, most
\* frequent first, and leaves out no pair more frequent than one it shows
ListsMostFrequent(shown) ==
    /\ \A i \in 1..Len(shown) :
          /\ shown[i].key[1] # shown[i].key[2]
          /\ shown[i].count = CountOf(conf, shown[i].key)
          /\ shown[i].count > 0
    /\ \A i, j \in 1..Len(shown) :
          /\ i < j => shown[i].count >= shown[j].count
          /\ shown[i].key = shown[j].key => i = j
    /\ \A c \in IncorrectPairs :
          (\A i \in 1..Len(shown) : shown[i].key # conf[c].key) =>
              \A i \in 1..Len(shown) : conf[c].count <= shown[i].count

\* C7 as stated: with show_confusions on, the listing shows only incorrect
\* pairs, most frequent first, exactly min(N, number of incorrect pairs) of them
\* for N = top_confusions, never more than N, and leaves out no pair more
\* frequent than one it shows. (For N < 0 the statement is read in its weakest
\* form, that nothing is listed: a listing cannot have fewer than 0 lines.)
C7_TopN ==
    (pc = "done" /\ args.show_confusions) =>
        LET shown == PrintedConfusions
            N == args.top_confusions
        IN  /\ ListsMostFrequent(shown)
            /\ Len(shown) = Min(Max(N, 0), Cardinality(IncorrectPairs))
            /\ Len(shown) <= Max(N, 0)

\* C7, amended: with show_confusions on, the listing shows only incorrect pairs,
\* most frequent first, and leaves out no pair more frequent than one it shows;
\* for N = top_confusions >= 0 it shows min(N, D) of the D incorrect pairs, and
\* for N < 0 it shows max(0, D + N) of them (all but the last -N).
C7_TopNPythonSlice ==
    (pc = "done" /\ args.show_confusions) =>
        LET shown == PrintedConfusions
            N == args.top_confusions
            D == Cardinality(IncorrectPairs)
        IN  /\ ListsMostFrequent(shown)
            /\ N >= 0 => Len(shown) = Min(N, D)
            /\ N < 0 => Len(shown) = Max(0, D + N)

C7_Witness ==
    /\ pc = "done" /\ args.show_confusions /\ args.top_confusions = 1
    /\ CountOf(conf, <<Some(0), Some(1)>>) = 1
    /\ CountOf(conf, <<Some(2), Some(0)>>) = 2
    /\ conf[1].key = <<Some(0), Some(1)>>
    /\ Len(PrintedConfusions) = 1
    /\ PrintedConfusions[1].key = <<Some(2), Some(0)>>

-----------------------------------------------------------------------------
\* Properties of the classifiers (under TextSpec)

Classified == cls # <<>>

\* C8: length_bucket answers short, medium or long by the hypothesis token count
\* n (n <= 5, 6 <= n <= 15, n > 15), and overlap_bucket answers low, mid or high
\* by the Jaccard value j of the two token sets (j < 0.2, 0.2 <= j < 0.5,
\* j >= 0.5), where j = 0 when both sets are empty.
C8_Buckets ==
    Classified =>
        LET n  == Len(cls[1].tok_b)
            sa == Range(cls[1].tok_a)
            sb == Range(cls[1].tok_b)
            i  == Cardinality(sa \cap sb)
            u  == Cardinality(sa \cup sb)
            lb == cls[1].lb
            ob == cls[1].ob
        IN  /\ lb \in {"short(<=5)", "medium(6-15)", "long(>15)"}
            /\ lb = "short(<=5)" <=> n <= 5
            /\ lb = "medium(6-15)" <=> (6 <= n /\ n <= 15)
            /\ lb = "long(>15)" <=> n > 15
            /\ ob \in {"low(<0.2)", "mid(0.2-0.5)", "high(>=0.5)"}
            /\ ob = "low(<0.2)" <=> (u = 0 \/ 5 * i < u)
            /\ ob = "mid(0.2-0.5)" <=> (u > 0 /\ 5 * i >= u /\ 2 * i < u)
            /\ ob = "high(>=0.5)" <=> (u > 0 /\ 2 * i >= u)

C8_Witness ==
    /\ Classified
    /\ Len(cls[1].tok_b) = 5 /\ cls[1].lb = "short(<=5)"
    /\ cls[1].j_ab = [num |-> 1, den |-> 5] /\ cls[1].ob = "mid(0.2-0.5)"

\* C9: jaccard_overlap gives the same value for (a, b) and (b, a), 1.0 when the
\* two token sets are equal and non-empty, and 0.0 when they are disjoint (one or
\* both may be empty).
C9_Jaccard ==
    Classified =>
        LET sa == Range(cls[1].tok_a)
            sb == Range(cls[1].tok_b)
            j  == cls[1].j_ab
        IN  /\ cls[1].j_ab = cls[1].j_ba
            /\ j.den > 0
            /\ (sa = sb /\ sa # {}) => j.num = j.den
            /\ sa \cap sb = {} => j.num = 0

C9_Witness ==
    /\ Classified
    /\ ta # tb
    /\ Len(cls[1].tok_a) # Len(cls[1].tok_b)
    /\ Range(cls[1].tok_a) = Range(cls[1].tok_b)
    /\ cls[1].j_ab = [num |-> 1, den |-> 1]

NegTokens == Range(NEG_ALTS)

\* tok occurs in text at offset p, ignoring case
OccursAt(text, p, tok) ==
    /\ p + Len(tok) <= Len(text)
    /\ \A q \in 1..Len(tok) : ToLower(text[p + q]) = tok[q]

\* C10 as stated: has_negation is true exactly when some token of tokenize(text)
\* is a negation token.
C10_NegationByToken ==
    Classified =>
        (cls[1].neg <=> \E i \in 1..Len(cls[1].tok_b) : cls[1].tok_b[i] \in NegTokens)

\* C10, amended: has_negation is true exactly when a negation token occurs in
\* the text, ignoring case, with no letter, digit or underscore right before it
\* and none right after it. (An apostrophe or any other character delimits the
\* token, an underscore does not.)
C10_NegationByBoundary ==
    Classified =>
        (cls[1].neg <=>
            \E tok \in NegTokens : \E p \in 0..Len(tb) :
                /\ OccursAt(tb, p, tok)
                /\ (p = 0 \/ ~IsReWordChar(tb[p]))
                /\ (p + Len(tok) = Len(tb) \/ ~IsReWordChar(tb[p + Len(tok) + 1])))

\* "no't": a negation token next to an apostrophe, inside a longer token
C10_Witness ==
    /\ Classified
    /\ tb = <<"N", "o", "'", "t">>
    /\ cls[1].neg
    /\ cls[1].tok_b = << <<"n", "o", "'", "t">> >>

====
